---- MODULE Spec2Model ----
(***************************************************************************)
(* Model of the shepherd monitoring engine (src/shepherd.py):              *)
(*   - ClaudeShepherd: context buffer, counters, violation ledger,         *)
(*     asynchronous analysis (_process_async_analysis);                    *)
(*   - ConversationMonitor: log discovery, switch_to_log, extraction;      *)
(*   - MultiProjectMonitor.monitor_all_projects: the polling thread;       *)
(*   - the asyncio loop thread that runs the analysis coroutines;          *)
(*   - the environment: the assistant writing, creating and deleting       *)
(*     transcript files.                                                   *)
(* The polling thread, the loop thread and the environment interleave at   *)
(* the granularity of the steps below.                                     *)
(***************************************************************************)
EXTENDS Integers, Sequences, FiniteSets, TLC

\* ---------------------------------------------------------------- bounds
\* number of lines the environment appends to the transcripts of a project
MaxAppends == 2
\* context_size is drawn from 0..MaxContext
MaxContext == 2
\* heartbeat_interval is drawn from -1..MaxInterval
MaxInterval == 2
\* number of transcript files the environment may delete
MaxDeletes == 1
\* number of lines appended to the session file of project A in SpecSession
MaxBatch == 3
\* an oracle response judged in SpecFormat has up to MaxLines lines of up to
\* MaxLineLen tokens
MaxLines == 3
MaxLineLen == 2

Projects == {"A", "B"}
\* iteration order of self.project_monitors (dict insertion order)
ProjectOrder == <<"A", "B">>
LogNames == {"f1", "f2"}
\* Python's None for project_log_path / newest_log
None == "None"

\* ---------------------------------------------------------------- strings
\* Text is a sequence of tokens.  A response of the oracle is a sequence of
\* lines (split on "\n"), each line a sequence of tokens.
SP == " "
ALERT == "ALERT:"
REASON == "REASON:"
SIREN == "siren"   \* the emoji that precedes ALERT: in free-form answers

VARIABLES
    context_size,            \* MultiProjectMonitor.context_size
    heartbeat_interval,      \* MultiProjectMonitor.heartbeat_interval
    is_running,              \* [p] ClaudeShepherd.is_running (set by _test_shepherd)
    subject,                 \* the argument of the function under study
    verdict,                 \* its result ("none": not applied)
    conversation_context,    \* [p] ClaudeShepherd.conversation_context
    message_count,           \* [p] ClaudeShepherd.message_count
    alert_count,             \* [p] ClaudeShepherd.alert_count
    reported_violations,     \* [p] ClaudeShepherd.reported_violations
    project_log_path,        \* [p] ConversationMonitor.project_log_path
    last_processed_line,     \* [p] ConversationMonitor.last_processed_line
    pending_analyses,        \* [p] MultiProjectMonitor.pending_analyses (0: no key)
    futures,                 \* coroutines handed to the loop thread; "at" notes
                             \* message_count when the request was built
    started,                 \* [p] number of analyses started so far
    analysed,                \* [p] message_count when the last request was built
    logs,                    \* [p][f] transcript files on disk
    recent,                  \* [p] file with the latest st_mtime
    creates,                 \* [p] files the environment may still create
    appends,                 \* [p] lines the environment may still append
    deletes,                 \* files the environment may still delete
    pc,                      \* position of the polling thread
    cur,                     \* index in ProjectOrder of the project being polled
    newest_log,              \* local: newest_log
    new_lines,               \* local: new_lines
    idx,                     \* local: i (0-based)
    total_lines,             \* local: total_lines
    hb_alerts,               \* local: alert_count as read by get_heartbeat_status
    output,                  \* [p] what was printed for the project ("result" is
                             \* the acknowledgment that only verbose mode prints)
    final_status,            \* the "Final status" line: <<total messages, total alerts>>
    history                  \* [p] every entry add_to_context was called with

shepherdVars == <<conversation_context, message_count, alert_count, reported_violations>>
monitorVars == <<project_log_path, last_processed_line>>
taskVars == <<pending_analyses, futures, started, analysed>>
fsVars == <<logs, recent, creates, appends, deletes>>
localVars == <<pc, cur, newest_log, new_lines, idx, total_lines, hb_alerts>>
configVars == <<context_size, heartbeat_interval, is_running, subject, verdict>>
vars == <<configVars, shepherdVars, monitorVars, taskVars, fsVars, localVars, output, final_status, history>>

\* ---------------------------------------------------------------- helpers
Min(a, b) == IF a < b THEN a ELSE b
Max(a, b) == IF a > b THEN a ELSE b

\* Python's s[-n:]: for n > 0 the last n items, for n = 0 the slice s[0:]
\* (all of s), for n < 0 the slice s[k:] with k = -n.
NegSlice(s, n) ==
    LET start == IF n > 0 THEN Max(Len(s) - n, 0)
                 ELSE IF n = 0 THEN 0
                 ELSE Min(0 - n, Len(s))
    IN  SubSeq(s, start + 1, Len(s))

\* Python's s[k:] for k >= 0
Slice(s, k) == SubSeq(s, Min(k, Len(s)) + 1, Len(s))

\* str.strip() on one line of tokens: leading and trailing blanks removed
RECURSIVE LStrip(_)
LStrip(t) == IF Len(t) > 0 /\ t[1] = SP THEN LStrip(Tail(t)) ELSE t
RECURSIVE RStrip(_)
RStrip(t) == IF Len(t) > 0 /\ t[Len(t)] = SP THEN RStrip(SubSeq(t, 1, Len(t) - 1)) ELSE t
Strip(t) == RStrip(LStrip(t))

\* str.isspace(): at least one character and all of them blank
IsSpace(t) == Len(t) > 0 /\ \A i \in 1..Len(t) : t[i] = SP

\* tok in line
Contains(t, tok) == \E i \in 1..Len(t) : t[i] = tok
StartsWith(t, tok) == Len(t) > 0 /\ t[1] = tok

\* f"{message_type}: {message_content}"
FormatEntry(message_type, message_content) == <<message_type, ":", SP>> \o message_content

\* ---------------------------------------------------------------- ClaudeShepherd
\* add_to_context: the new value of conversation_context
add_to_context(context, size, message_content, message_type) ==
    LET c == Append(context, FormatEntry(message_type, message_content))
    IN  IF Len(c) > size THEN NegSlice(c, size) ELSE c

\* (mutant) the message is counted twice
count_message_twice(n) == n + 2

\* add_to_context: the new value of message_count
count_message(n) == n + 1

\* _build_analysis_prompt: context_window
context_window(size, context) == Min(size, Len(context))

\* _build_analysis_prompt: context_start_message
context_start_message(count, window) == Max(1, count - window + 1)

\* (mutant) the clean-up removes every record
prune_everything(ledger, count, window) == <<>>

\* (mutant) the clean-up is left out
prune_nothing(ledger, count, window) == ledger

\* _build_analysis_prompt: the ledger after the clean-up
prune_violations(ledger, count, window) ==
    LET Keep(v) == v.message_num >= context_start_message(count, window)
    IN  IF ledger # <<>> THEN SelectSeq(ledger, Keep) ELSE ledger

\* _build_analysis_prompt: what the request holds (the pruned ledger as the
\* already-reported section, the number of context messages, the context
\* summary conversation_context[-context_window:], the message to analyse)
build_analysis_prompt(ledger, context, size, count, message_content, message_type) ==
    LET w == context_window(size, context)
    IN  [reported |-> prune_violations(ledger, count, w),
         window   |-> w,
         summary  |-> NegSlice(context, w),
         message  |-> FormatEntry(message_type, message_content)]

\* "ALERT:" in response
has_alert(response) == \E k \in 1..Len(response) : Contains(response[k], ALERT)

\* "siren ALERT:" in result (the test of the polling loop, line 891)
has_siren_alert(result) ==
    \E k \in 1..Len(result) : \E i \in 1..(Len(result[k]) - 2) :
        /\ result[k][i] = SIREN
        /\ result[k][i + 1] = SP
        /\ result[k][i + 2] = ALERT

\* response.strip().split('\n'): blank lines at both ends are dropped, the
\* first line loses its leading blanks and the last its trailing blanks
RECURSIVE strip_head(_)
strip_head(lines) ==
    IF Len(lines) = 0 THEN << <<>> >>
    ELSE IF LStrip(lines[1]) = <<>> THEN strip_head(Tail(lines))
    ELSE <<LStrip(lines[1])>> \o Tail(lines)
RECURSIVE strip_tail(_)
strip_tail(lines) ==
    IF Len(lines) = 1 THEN <<RStrip(lines[1])>>
    ELSE IF RStrip(lines[Len(lines)]) = <<>> THEN strip_tail(SubSeq(lines, 1, Len(lines) - 1))
    ELSE SubSeq(lines, 1, Len(lines) - 1) \o <<RStrip(lines[Len(lines)])>>
strip_lines(response) == strip_tail(strip_head(response))

\* (mutant) the REASON line is not required
is_properly_formatted_lenient(response) ==
    ~has_alert(response) \/ StartsWith(strip_lines(response)[1], ALERT)

\* _is_properly_formatted
is_properly_formatted(response) ==
    LET lines == strip_lines(response)
    IN  IF ~has_alert(response) THEN TRUE
        ELSE IF ~StartsWith(lines[1], ALERT) THEN FALSE
        ELSE \E k \in 1..Len(lines) : StartsWith(lines[k], REASON)

\* re.match(r'ALERT:\s*(.+)', first_line) succeeds
alert_match(first_line) == StartsWith(first_line, ALERT) /\ Len(first_line) > 1

\* response.replace("ALERT: ", "") on one line
RECURSIVE remove_alert_prefix(_)
remove_alert_prefix(t) ==
    IF Len(t) = 0 THEN t
    ELSE IF Len(t) >= 2 /\ t[1] = ALERT /\ t[2] = SP
         THEN remove_alert_prefix(SubSeq(t, 3, Len(t)))
         ELSE <<t[1]>> \o remove_alert_prefix(Tail(t))

\* _process_async_analysis: violation_text, as a sequence of lines
violation_text(response) ==
    IF alert_match(response[1])
    THEN <<Strip(Tail(response[1]))>>
    ELSE [k \in 1..Len(response) |-> remove_alert_prefix(response[k])]

\* (mutant) the modulo test is left out
should_show_heartbeat_always(interval, count) == interval > 0 /\ count > 0

\* should_show_heartbeat
should_show_heartbeat(interval, count) ==
    IF interval <= 0 THEN FALSE
    ELSE count > 0 /\ count % interval = 0

\* ---------------------------------------------------------------- ConversationMonitor
\* A transcript line.  shape "garbage" is not JSON; shape "value" is JSON but
\* no object with members (truthy: a number, a string, a list; not truthy:
\* null, 0, "", [], {}); shape "object" is a JSON object with a type ("" when
\* the member is missing), a stop marker (finish_reason / stop_reason) and a
\* content of one of these kinds:
\*   "str"        message.content is a string (blocks[1].text)
\*   "list"       message.content is a list of blocks
\*   "other"      message.content is neither (a number, an object, missing)
\*   "none"       no message member and no content member
\*   "top"        no message member, a top-level content string (blocks[1].text)
\*   "top_other"  no message member, a top-level content that is no string
\*   "badmessage" the message member is not an object (a string, a list)
\* A block has a type and a text; str tells whether the text is a string.
JsonLine(type, kind, blocks, stop) ==
    [shape |-> "object", truthy |-> TRUE, type |-> type, kind |-> kind,
     blocks |-> blocks, stop |-> stop]
GarbageLine ==
    [shape |-> "garbage", truthy |-> FALSE, type |-> "", kind |-> "none",
     blocks |-> <<>>, stop |-> FALSE]
ValueLine(truthy) ==
    [shape |-> "value", truthy |-> truthy, type |-> "", kind |-> "none",
     blocks |-> <<>>, stop |-> FALSE]
TextBlock(text) == [type |-> "text", text |-> text, str |-> TRUE]

\* parse_jsonl_message returns a message (not None)
parse_jsonl_message(line) == line.shape # "garbage"

\* message.get('type', 'unknown') of line 857
msg_type(message) == IF message.type = "" THEN "unknown" ELSE message.type

\* ' '.join(text_parts)
RECURSIVE JoinText(_)
JoinText(blocks) ==
    IF Len(blocks) = 0 THEN <<>>
    ELSE IF blocks[1].type # "text" THEN JoinText(Tail(blocks))
    ELSE LET rest == SelectSeq(Tail(blocks), LAMBDA b : b.type = "text")
         IN  IF Len(rest) = 0 THEN blocks[1].text
             ELSE blocks[1].text \o <<SP>> \o JoinText(rest)

\* the call of is_complete_message at line 856 raises: message.get on a value
\* that is no object (AttributeError), nested_message.get on a payload that is
\* no object (AttributeError), ' '.join over a text that is no string
\* (TypeError), content.strip() / content.isspace() on a content that is no
\* string (AttributeError)
raises(line) ==
    \/ line.shape = "value" /\ line.truthy
    \/ /\ line.shape = "object"
       /\ \/ line.kind \in {"badmessage", "top_other"}
          \/ /\ line.kind = "list"
             /\ \E i \in 1..Len(line.blocks) :
                    line.blocks[i].type = "text" /\ ~line.blocks[i].str

\* extract_content
extract_content(message) ==
    IF message.kind \in {"str", "top"} THEN message.blocks[1].text
    ELSE IF message.kind = "list" THEN JoinText(message.blocks)
    ELSE <<>>

\* is_complete_message
is_complete_message(message) ==
    LET content == extract_content(message)
    IN  \/ message.type = "user" /\ content # <<>>
        \/ message.type = "assistant" /\ content # <<>>
        \/ message.stop
        \/ content # <<>> /\ Len(Strip(content)) > 10

\* (mutant) a blank text is let through
admitted_blank(line) ==
    /\ parse_jsonl_message(line)
    /\ line.truthy
    /\ is_complete_message(line)
    /\ extract_content(line) # <<>>

\* the test of lines 856 and 860: the line is added to the context
admitted(line) ==
    /\ parse_jsonl_message(line)
    /\ line.truthy
    /\ is_complete_message(line)
    /\ extract_content(line) # <<>>
    /\ ~IsSpace(extract_content(line))

\* ---------------------------------------------------------------- files
NoFile == [state |-> "absent", lines |-> <<>>]
Exists(p, f) == f # None /\ logs[p][f].state = "present"

\* find_most_recent_log: the existing file with the latest st_mtime;
\* recent[p] lists the files by modification time, latest first
find_most_recent_log(p) ==
    LET live == SelectSeq(recent[p], LAMBDA f : logs[p][f].state = "present")
    IN  IF Len(live) = 0 THEN None ELSE live[1]

\* the words the assistant writes: line n of file f carries Words[f][n]
Words == [f \in LogNames |->
    IF f = "f1" THEN <<"a1", "a2", "a3", "a4", "a5", "a6", "a7", "a8">>
                ELSE <<"b1", "b2", "b3", "b4", "b5", "b6", "b7", "b8">>]

\* the lines the environment may append to file f as its n-th line
LogLines(f, n) ==
    { JsonLine("user", "str", <<TextBlock(<<Words[f][n]>>)>>, FALSE),
      GarbageLine }

Touch(order, f) == <<f>> \o SelectSeq(order, LAMBDA g : g # f)

\* the assistant starts a new session file
CreateLog(p, f) ==
    /\ logs[p][f].state = "absent"
    /\ creates[p] > 0
    /\ creates' = [creates EXCEPT ![p] = @ - 1]
    /\ logs' = [logs EXCEPT ![p][f] = [state |-> "present", lines |-> <<>>]]
    /\ recent' = [recent EXCEPT ![p] = Touch(@, f)]
    /\ UNCHANGED <<appends, deletes>>
    /\ UNCHANGED <<configVars, shepherdVars, monitorVars, taskVars, localVars, output, final_status, history>>

\* the assistant appends one line to a session file
AppendLine(p, f, line) ==
    /\ logs[p][f].state = "present"
    /\ appends[p] > 0
    /\ logs' = [logs EXCEPT ![p][f].lines = Append(@, line)]
    /\ recent' = [recent EXCEPT ![p] = Touch(@, f)]
    /\ appends' = [appends EXCEPT ![p] = @ - 1]
    /\ UNCHANGED <<creates, deletes>>
    /\ UNCHANGED <<configVars, shepherdVars, monitorVars, taskVars, localVars, output, final_status, history>>

\* a session file is removed
DeleteLog(p, f) ==
    /\ logs[p][f].state = "present"
    /\ deletes > 0
    /\ logs' = [logs EXCEPT ![p][f] = [state |-> "deleted", lines |-> <<>>]]
    /\ deletes' = deletes - 1
    /\ UNCHANGED <<recent, creates, appends>>
    /\ UNCHANGED <<configVars, shepherdVars, monitorVars, taskVars, localVars, output, final_status, history>>

\* ---------------------------------------------------------------- the oracle
\* answers of the judgment engine, already stripped
RespClear == << <<"ok">> >>
RespAlert == << <<ALERT, SP, "rule">>, <<REASON, SP, "why">> >>
RespSiren == << <<SIREN, SP, ALERT, SP, "rule">>, <<REASON, SP, "why">> >>
Responses == {RespClear, RespAlert, RespSiren}
\* the sentinel _process_async_analysis returns on a failed call
AnalysisFailed == << <<"Analysis", SP, "failed">> >>
NoResponse == <<>>
\* the coroutine ended with an exception: future.result() raises it (line 890)
Raised == << <<"raised">> >>

\* ---------------------------------------------------------------- initial state
\* the state after MultiProjectMonitor.__init__: the options -c and -b, the
\* outcome of _test_shepherd (the same claude binary for every project), and
\* what the environment may still do
Start(sizes, intervals, probes, c, a, d, subjects) ==
    /\ context_size \in sizes
    /\ heartbeat_interval \in intervals
    /\ is_running \in {[p \in Projects |-> b] : b \in probes}
    /\ subject \in subjects
    /\ verdict = "none"
    /\ conversation_context = [p \in Projects |-> <<>>]
    /\ message_count = [p \in Projects |-> 0]
    /\ alert_count = [p \in Projects |-> 0]
    /\ reported_violations = [p \in Projects |-> <<>>]
    /\ project_log_path = [p \in Projects |-> None]
    /\ last_processed_line = [p \in Projects |-> 0]
    /\ pending_analyses = [p \in Projects |-> 0]
    /\ futures = {}
    /\ started = [p \in Projects |-> 0]
    /\ analysed = [p \in Projects |-> 0]
    /\ logs = [p \in Projects |-> [f \in LogNames |-> NoFile]]
    /\ recent = [p \in Projects |-> <<>>]
    /\ creates = c
    /\ appends = a
    /\ deletes = d
    /\ pc = "init"
    /\ cur = 1
    /\ newest_log = None
    /\ new_lines = <<>>
    /\ idx = 0
    /\ total_lines = 0
    /\ hb_alerts = 0
    /\ output = [p \in Projects |-> <<>>]
    /\ final_status = <<>>
    /\ history = [p \in Projects |-> <<>>]

\* every option value, the probe succeeded, project A is active: its sessions
\* are created, written and deleted
Init ==
    Start(0..MaxContext, (0 - 1)..MaxInterval, {TRUE},
          [p \in Projects |-> IF p = "A" THEN Cardinality(LogNames) ELSE 0],
          [p \in Projects |-> IF p = "A" THEN MaxAppends ELSE 0],
          MaxDeletes, {<<>>})

Me == ProjectOrder[cur]
idleLocals == <<newest_log, new_lines, idx, total_lines, hb_alerts>>

\* ---------------------------------------------------------------- polling thread
\* (mutant) the first log is read from its first line
InitLogsFromStart ==
    /\ pc = "init"
    /\ project_log_path' = [project_log_path EXCEPT ![Me] = find_most_recent_log(Me)]
    /\ UNCHANGED last_processed_line
    /\ IF cur < Len(ProjectOrder)
       THEN cur' = cur + 1 /\ pc' = "init"
       ELSE cur' = 1 /\ pc' = "find"
    /\ UNCHANGED idleLocals
    /\ UNCHANGED <<configVars, shepherdVars, taskVars, fsVars, output, final_status, history>>

\* lines 818-831: the first log of each project, anchored at its end
InitLogs ==
    /\ pc = "init"
    /\ LET found == find_most_recent_log(Me)
       IN  /\ project_log_path' = [project_log_path EXCEPT ![Me] = found]
           /\ last_processed_line' = [last_processed_line EXCEPT ![Me] =
                  IF Exists(Me, found) THEN Len(logs[Me][found].lines) ELSE @]
    /\ IF cur < Len(ProjectOrder)
       THEN cur' = cur + 1 /\ pc' = "init"
       ELSE cur' = 1 /\ pc' = "find"
    /\ UNCHANGED idleLocals
    /\ UNCHANGED <<configVars, shepherdVars, taskVars, fsVars, output, final_status, history>>

\* lines 837-838: look for a newer log
FindLog ==
    /\ pc = "find"
    /\ LET found == find_most_recent_log(Me)
       IN  IF found # None /\ found # project_log_path[Me]
           THEN newest_log' = found /\ pc' = "switch"
           ELSE newest_log' = None /\ pc' = "exists"
    /\ UNCHANGED <<cur, new_lines, idx, total_lines, hb_alerts>>
    /\ UNCHANGED <<configVars, shepherdVars, monitorVars, taskVars, fsVars, output, final_status, history>>

\* (mutant) the switch starts over with an empty context
SwitchToLogForgetting ==
    /\ pc = "switch"
    /\ project_log_path' = [project_log_path EXCEPT ![Me] = newest_log]
    /\ conversation_context' = [conversation_context EXCEPT ![Me] = <<>>]
    /\ IF Exists(Me, newest_log)
       THEN pc' = "switch_read" /\ UNCHANGED newest_log
       ELSE pc' = "exists" /\ newest_log' = None
    /\ UNCHANGED <<cur, new_lines, idx, total_lines, hb_alerts>>
    /\ UNCHANGED <<last_processed_line>>
    /\ UNCHANGED <<message_count, alert_count, reported_violations>>
    /\ UNCHANGED <<configVars, taskVars, fsVars, output, final_status, history>>

\* switch_to_log, lines 685-689: the path is replaced, then exists() is asked
SwitchToLog ==
    /\ pc = "switch"
    /\ project_log_path' = [project_log_path EXCEPT ![Me] = newest_log]
    /\ IF Exists(Me, newest_log)
       THEN pc' = "switch_read" /\ UNCHANGED newest_log
       ELSE pc' = "exists" /\ newest_log' = None
    /\ UNCHANGED <<cur, new_lines, idx, total_lines, hb_alerts>>
    /\ UNCHANGED <<last_processed_line>>
    /\ UNCHANGED <<configVars, shepherdVars, taskVars, fsVars, output, final_status, history>>

\* switch_to_log, lines 690-692: open and count the lines; open() raises when
\* the file is gone, which ends monitor_all_projects (line 909)
SwitchRead ==
    /\ pc = "switch_read"
    /\ IF Exists(Me, newest_log)
       THEN /\ last_processed_line' = [last_processed_line EXCEPT ![Me] =
                   Len(logs[Me][newest_log].lines)]
            /\ pc' = "exists"
       ELSE /\ pc' = "stopped"
            /\ UNCHANGED last_processed_line
    /\ newest_log' = None
    /\ UNCHANGED <<cur, new_lines, idx, total_lines, hb_alerts>>
    /\ UNCHANGED <<project_log_path>>
    /\ UNCHANGED <<configVars, shepherdVars, taskVars, fsVars, output, final_status, history>>

\* line 841
CheckExists ==
    /\ pc = "exists"
    /\ IF project_log_path[Me] # None /\ Exists(Me, project_log_path[Me])
       THEN pc' = "open"
       ELSE pc' = "poll"
    /\ UNCHANGED <<cur, idleLocals>>
    /\ UNCHANGED <<configVars, shepherdVars, monitorVars, taskVars, fsVars, output, final_status, history>>

\* (mutant) the whole file is taken as the batch
OpenLogRereads ==
    /\ pc = "open"
    /\ IF Exists(Me, project_log_path[Me])
       THEN LET lines == logs[Me][project_log_path[Me]].lines
            IN  IF lines # <<>>
                THEN /\ new_lines' = lines
                     /\ total_lines' = Len(lines)
                     /\ pc' = "line"
                ELSE /\ pc' = "poll"
                     /\ UNCHANGED <<new_lines, total_lines>>
       ELSE /\ pc' = "stopped"
            /\ UNCHANGED <<new_lines, total_lines>>
    /\ idx' = 0
    /\ UNCHANGED <<cur, newest_log, hb_alerts>>
    /\ UNCHANGED <<configVars, shepherdVars, monitorVars, taskVars, fsVars, output, final_status, history>>

\* lines 842-848: read the file and cut the new lines
OpenLog ==
    /\ pc = "open"
    /\ IF Exists(Me, project_log_path[Me])
       THEN LET lines == logs[Me][project_log_path[Me]].lines
                fresh == Slice(lines, last_processed_line[Me])
            IN  IF fresh # <<>>
                THEN /\ new_lines' = fresh
                     /\ total_lines' = Len(lines)
                     /\ pc' = "line"
                ELSE /\ pc' = "poll"
                     /\ UNCHANGED <<new_lines, total_lines>>
       ELSE /\ pc' = "stopped"
            /\ UNCHANGED <<new_lines, total_lines>>
    /\ idx' = 0
    /\ UNCHANGED <<cur, newest_log, hb_alerts>>
    /\ UNCHANGED <<configVars, shepherdVars, monitorVars, taskVars, fsVars, output, final_status, history>>

\* (mutant) the offset is set back to the start of the file after a batch
AdvanceResetsOffset ==
    IF idx + 1 < Len(new_lines)
    THEN /\ idx' = idx + 1
         /\ pc' = "line"
         /\ UNCHANGED <<new_lines, total_lines, last_processed_line>>
    ELSE /\ last_processed_line' = [last_processed_line EXCEPT ![Me] = 0]
         /\ idx' = 0
         /\ new_lines' = <<>>
         /\ total_lines' = 0
         /\ pc' = "poll"

\* (mutant) the rest of the batch is dropped
AdvanceDropsBatch ==
    /\ last_processed_line' = [last_processed_line EXCEPT ![Me] = total_lines]
    /\ idx' = 0
    /\ new_lines' = <<>>
    /\ total_lines' = 0
    /\ pc' = "poll"

\* the end of one pass of the for loop of line 852, and line 883 after the last
Advance ==
    IF idx + 1 < Len(new_lines)
    THEN /\ idx' = idx + 1
         /\ pc' = "line"
         /\ UNCHANGED <<new_lines, total_lines, last_processed_line>>
    ELSE /\ last_processed_line' = [last_processed_line EXCEPT ![Me] = total_lines]
         /\ idx' = 0
         /\ new_lines' = <<>>
         /\ total_lines' = 0
         /\ pc' = "poll"

\* lines 853-865: one line of the batch; an exception raised here ends
\* monitor_all_projects (line 909)
ProcessLine ==
    /\ pc = "line"
    /\ LET line == new_lines[idx + 1]
       IN  IF raises(line)
           THEN /\ pc' = "stopped"
                /\ UNCHANGED <<idx, new_lines, total_lines, last_processed_line>>
                /\ UNCHANGED <<conversation_context, message_count, history>>
           ELSE IF admitted(line)
           THEN /\ conversation_context' = [conversation_context EXCEPT ![Me] =
                       add_to_context(@, context_size, extract_content(line), msg_type(line))]
                /\ message_count' = [message_count EXCEPT ![Me] = count_message(@)]
                /\ history' = [history EXCEPT ![Me] =
                       Append(@, FormatEntry(msg_type(line), extract_content(line)))]
                /\ pc' = IF should_show_heartbeat(heartbeat_interval, message_count'[Me])
                         THEN "heartbeat" ELSE "dispatch"
                /\ UNCHANGED <<idx, new_lines, total_lines, last_processed_line>>
           ELSE /\ Advance
                /\ UNCHANGED <<conversation_context, message_count, history>>
    /\ UNCHANGED <<cur, newest_log, hb_alerts>>
    /\ UNCHANGED <<alert_count, reported_violations, project_log_path>>
    /\ UNCHANGED <<configVars, taskVars, fsVars, output, final_status>>

\* get_heartbeat_status, lines 560-563: the status is built from alert_count
HeartbeatStatus ==
    /\ pc = "heartbeat"
    /\ hb_alerts' = alert_count[Me]
    /\ pc' = "heartbeat_reset"
    /\ UNCHANGED <<cur, newest_log, new_lines, idx, total_lines>>
    /\ UNCHANGED <<configVars, shepherdVars, monitorVars, taskVars, fsVars, output, final_status, history>>

\* (mutant) the tally is not reset
keep_alerts(n) == n

\* get_heartbeat_status, line 566: the new value of alert_count
reset_alerts(n) == 0

\* get_heartbeat_status, lines 566-568, and the print of line 866
HeartbeatReset ==
    /\ pc = "heartbeat_reset"
    /\ alert_count' = [alert_count EXCEPT ![Me] = reset_alerts(@)]
    /\ output' = [output EXCEPT ![Me] = Append(@,
           [kind |-> "heartbeat", at |-> message_count[Me], alerts |-> hb_alerts,
            text |-> <<>>])]
    /\ hb_alerts' = 0
    /\ pc' = "dispatch"
    /\ UNCHANGED <<cur, newest_log, new_lines, idx, total_lines>>
    /\ UNCHANGED <<conversation_context, message_count, reported_violations>>
    /\ UNCHANGED <<configVars, monitorVars, taskVars, fsVars, final_status, history>>

\* (mutant) any line of the batch may start an analysis
may_dispatch_any_line(i, n, slot) == slot = 0

\* (mutant) the slot is not consulted
may_dispatch_unguarded(i, n, slot) == i = n - 1

\* lines 869-870: this is the last line of the batch and no analysis is pending
may_dispatch(i, n, slot) == i = n - 1 /\ slot = 0

\* lines 869-881: start the analysis of the last message of the batch
Dispatch ==
    /\ pc = "dispatch"
    /\ IF may_dispatch(idx, Len(new_lines), pending_analyses[Me])
       THEN LET line == new_lines[idx + 1]
                prompt == build_analysis_prompt(reported_violations[Me],
                              conversation_context[Me], context_size, message_count[Me],
                              extract_content(line), msg_type(line))
                id == started[Me] + 1
            IN  /\ reported_violations' = [reported_violations EXCEPT ![Me] = prompt.reported]
                /\ started' = [started EXCEPT ![Me] = id]
                /\ analysed' = [analysed EXCEPT ![Me] = message_count[Me]]
                /\ futures' = futures \cup
                       {[proj |-> Me, id |-> id, stage |-> "calling",
                         response |-> NoResponse, original |-> NoResponse,
                         repairs |-> 0, prompt |-> prompt,
                         at |-> message_count[Me]]}
                /\ pending_analyses' = [pending_analyses EXCEPT ![Me] = id]
       ELSE UNCHANGED <<reported_violations, started, analysed, futures, pending_analyses>>
    /\ Advance
    /\ UNCHANGED <<cur, newest_log, hb_alerts>>
    /\ UNCHANGED <<conversation_context, message_count, alert_count, project_log_path>>
    /\ UNCHANGED <<configVars, fsVars, output, final_status, history>>

\* the future stored in the slot of project p
SlotFuture(p) == {t \in futures : t.proj = p /\ t.id = pending_analyses[p]}

\* (mutant) the slot is not cleared when reading the result raises
PollTaskLeavesRaised ==
    /\ pc = "poll"
    /\ IF pending_analyses[Me] # 0 /\ \E t \in SlotFuture(Me) : t.stage = "done"
       THEN LET t == CHOOSE t \in SlotFuture(Me) : t.stage = "done"
            IN  IF t.response = Raised
                THEN UNCHANGED <<output, pending_analyses, futures>>
                ELSE /\ output' = [output EXCEPT ![Me] = Append(@,
                            [kind |-> IF has_siren_alert(t.response) THEN "alert"
                                      ELSE "result",
                             at |-> message_count[Me], alerts |-> 0, text |-> t.response])]
                     /\ pending_analyses' = [pending_analyses EXCEPT ![Me] = 0]
                     /\ futures' = futures \ {t}
       ELSE UNCHANGED <<output, pending_analyses, futures>>
    /\ cur' = IF cur < Len(ProjectOrder) THEN cur + 1 ELSE 1
    /\ pc' = "find"
    /\ UNCHANGED idleLocals
    /\ UNCHANGED <<started, analysed>>
    /\ UNCHANGED <<configVars, shepherdVars, monitorVars, fsVars, final_status, history>>

\* (mutant) the polling thread waits for the result of the analysis in the slot
PollTaskWaiting ==
    /\ pc = "poll"
    /\ pending_analyses[Me] # 0 => \E t \in SlotFuture(Me) : t.stage = "done"
    /\ IF pending_analyses[Me] # 0
       THEN LET t == CHOOSE t \in SlotFuture(Me) : t.stage = "done"
            IN  /\ output' = [output EXCEPT ![Me] = Append(@,
                       [kind |-> IF t.response = Raised THEN "error"
                                 ELSE IF has_siren_alert(t.response) THEN "alert"
                                 ELSE "result",
                        at |-> message_count[Me], alerts |-> 0, text |-> t.response])]
                /\ pending_analyses' = [pending_analyses EXCEPT ![Me] = 0]
                /\ futures' = futures \ {t}
       ELSE UNCHANGED <<output, pending_analyses, futures>>
    /\ cur' = IF cur < Len(ProjectOrder) THEN cur + 1 ELSE 1
    /\ pc' = "find"
    /\ UNCHANGED idleLocals
    /\ UNCHANGED <<started, analysed>>
    /\ UNCHANGED <<configVars, shepherdVars, monitorVars, fsVars, final_status, history>>

\* lines 886-900: consume a finished analysis; then the next project, or
\* line 902 and the next pass over the projects
PollTask ==
    /\ pc = "poll"
    /\ IF pending_analyses[Me] # 0 /\ \E t \in SlotFuture(Me) : t.stage = "done"
       THEN LET t == CHOOSE t \in SlotFuture(Me) : t.stage = "done"
            IN  /\ output' = [output EXCEPT ![Me] = Append(@,
                       [kind |-> IF t.response = Raised THEN "error"
                                 ELSE IF has_siren_alert(t.response) THEN "alert"
                                 ELSE "result",
                        at |-> message_count[Me], alerts |-> 0, text |-> t.response])]
                /\ pending_analyses' = [pending_analyses EXCEPT ![Me] = 0]
                /\ futures' = futures \ {t}
       ELSE UNCHANGED <<output, pending_analyses, futures>>
    /\ cur' = IF cur < Len(ProjectOrder) THEN cur + 1 ELSE 1
    /\ pc' = "find"
    /\ UNCHANGED idleLocals
    /\ UNCHANGED <<started, analysed>>
    /\ UNCHANGED <<configVars, shepherdVars, monitorVars, fsVars, final_status, history>>

\* ---------------------------------------------------------------- loop thread
\* subprocess.run in _attempt_reformat blocks the loop thread
LoopFree == \A t \in futures : t.stage # "reformat"

\* line 467: the new value of alert_count
count_alert(n) == n + 1

\* (mutant) the first line is recorded as it is
record_first_line(ledger, count, response) ==
    Append(ledger, [message_num |-> count, violation |-> <<response[1]>>])

\* lines 469-474: the new value of reported_violations
record_violation(ledger, count, response) ==
    Append(ledger, [message_num |-> count, violation |-> violation_text(response)])

\* lines 465-476: count the alert, record the violation, return the response
Finish(t, response) ==
    /\ IF has_alert(response)
       THEN /\ alert_count' = [alert_count EXCEPT ![t.proj] = count_alert(@)]
            /\ reported_violations' = [reported_violations EXCEPT ![t.proj] =
                   record_violation(@, message_count[t.proj], response)]
       ELSE UNCHANGED <<alert_count, reported_violations>>
    /\ futures' = (futures \ {t}) \cup
           {[t EXCEPT !.stage = "done", !.response = response,
                      !.original = IF t.stage = "calling" THEN response ELSE @]}

\* line 452: the response is sent to _attempt_reformat
needs_reformat(response) == has_alert(response) /\ ~is_properly_formatted(response)

\* lines 590-591: _attempt_reformat asks the oracle only when is_running
attempt_reformat_asks(running) == running

\* the loop thread runs until the finally clause of line 911 stops the loop
LoopRuns == pc \notin {"stopped", "interrupted"}

\* lines 445-476: the oracle call returns with status 0
OracleAnswers(t, r) ==
    /\ LoopRuns
    /\ t.stage = "calling"
    /\ LoopFree
    /\ IF needs_reformat(r) /\ attempt_reformat_asks(is_running[t.proj])
       THEN /\ futures' = (futures \ {t}) \cup
                   {[t EXCEPT !.stage = "reformat", !.response = r,
                              !.original = r, !.repairs = @ + 1]}
            /\ UNCHANGED <<alert_count, reported_violations>>
       ELSE Finish(t, r)
    /\ UNCHANGED <<conversation_context, message_count, pending_analyses, started, analysed>>
    /\ UNCHANGED <<configVars, monitorVars, fsVars, localVars, output, final_status, history>>

\* (mutant) a failed call is counted as an alert
OracleFailsCounting(t) ==
    /\ LoopRuns
    /\ t.stage = "calling"
    /\ LoopFree
    /\ futures' = (futures \ {t}) \cup
           {[t EXCEPT !.stage = "done", !.response = AnalysisFailed]}
    /\ alert_count' = [alert_count EXCEPT ![t.proj] = @ + 1]
    /\ UNCHANGED <<conversation_context, message_count, reported_violations>>
    /\ UNCHANGED <<pending_analyses, started, analysed>>
    /\ UNCHANGED <<configVars, monitorVars, fsVars, localVars, output, final_status, history>>

\* lines 342-348 and 477-479: time-out or non-zero status
OracleFails(t) ==
    /\ LoopRuns
    /\ t.stage = "calling"
    /\ LoopFree
    /\ futures' = (futures \ {t}) \cup
           {[t EXCEPT !.stage = "done", !.response = AnalysisFailed]}
    /\ UNCHANGED <<pending_analyses, started, analysed>>
    /\ UNCHANGED <<configVars, shepherdVars, monitorVars, fsVars, localVars, output, final_status, history>>

\* the coroutine ends with an exception, e.g. proc.kill() of line 344 on a
\* process that has just exited
OracleRaises(t) ==
    /\ LoopRuns
    /\ t.stage = "calling"
    /\ LoopFree
    /\ futures' = (futures \ {t}) \cup
           {[t EXCEPT !.stage = "done", !.response = Raised]}
    /\ UNCHANGED <<pending_analyses, started, analysed>>
    /\ UNCHANGED <<configVars, shepherdVars, monitorVars, fsVars, localVars, output, final_status, history>>

\* _attempt_reformat returns the reformatted text (lines 614-617)
ReformatAnswers(t, r) ==
    /\ LoopRuns
    /\ t.stage = "reformat"
    /\ Finish(t, r)
    /\ UNCHANGED <<conversation_context, message_count, pending_analyses, started, analysed>>
    /\ UNCHANGED <<configVars, monitorVars, fsVars, localVars, output, final_status, history>>

\* _attempt_reformat gives the malformed response back (lines 618-624)
ReformatFails(t) ==
    /\ LoopRuns
    /\ t.stage = "reformat"
    /\ Finish(t, t.response)
    /\ UNCHANGED <<conversation_context, message_count, pending_analyses, started, analysed>>
    /\ UNCHANGED <<configVars, monitorVars, fsVars, localVars, output, final_status, history>>

\* ---------------------------------------------------------------- specification
Environment ==
    \E p \in Projects : \E f \in LogNames :
        \/ CreateLog(p, f)
        \/ \E line \in LogLines(f, Len(logs[p][f].lines) + 1) : AppendLine(p, f, line)
        \/ DeleteLog(p, f)

Polling ==
    \/ InitLogs
    \/ FindLog
    \/ SwitchToLog
    \/ SwitchRead
    \/ CheckExists
    \/ OpenLog
    \/ ProcessLine
    \/ HeartbeatStatus
    \/ HeartbeatReset
    \/ Dispatch
    \/ PollTask

LoopThread ==
    \E t \in futures :
        \/ \E r \in Responses : OracleAnswers(t, r)
        \/ OracleFails(t)
        \/ OracleRaises(t)
        \/ \E r \in Responses : ReformatAnswers(t, r)
        \/ ReformatFails(t)

Next == Environment \/ Polling \/ LoopThread

Spec == Init /\ [][Next]_vars

\* sum(... for monitor in self.project_monitors.values())
RECURSIVE Total(_, _)
Total(f, k) == IF k = 0 THEN 0 ELSE f[ProjectOrder[k]] + Total(f, k - 1)

\* lines 904-915: Ctrl+C ends the polling loop; the final status is printed
\* from the counters and the loop thread is stopped
Interrupt ==
    /\ pc \notin {"stopped", "interrupted"}
    /\ pc' = "interrupted"
    /\ final_status' = <<Total(message_count, Len(ProjectOrder)),
                         Total(alert_count, Len(ProjectOrder))>>
    /\ cur' = 1
    /\ newest_log' = None
    /\ new_lines' = <<>>
    /\ idx' = 0
    /\ total_lines' = 0
    /\ hb_alerts' = 0
    /\ UNCHANGED <<configVars, shepherdVars, monitorVars, taskVars, fsVars, output, history>>

\* one session of project A with up to MaxBatch lines, never deleted; the
\* probe may have failed; the user may interrupt the run
InitSession ==
    Start({MaxContext}, {MaxInterval}, BOOLEAN,
          [p \in Projects |-> IF p = "A" THEN 1 ELSE 0],
          [p \in Projects |-> IF p = "A" THEN MaxBatch ELSE 0],
          0, {<<>>})

SessionEnvironment ==
    /\ pc # "interrupted"
    /\ \E p \in Projects : \E f \in LogNames :
        \/ CreateLog(p, f)
        \/ \E line \in LogLines(f, Len(logs[p][f].lines) + 1) : AppendLine(p, f, line)

NextSession == SessionEnvironment \/ Polling \/ LoopThread \/ Interrupt

SpecSession == InitSession /\ [][NextSession]_vars

\* ---------------------------------------------------------------- _is_properly_formatted alone
ResponseTokens == {ALERT, REASON, SP, "rule"}
ResponseLines == UNION {[1..n -> ResponseTokens] : n \in 0..MaxLineLen}
\* what stdout.decode().strip() and result.stdout.strip() can be
StrippedResponses ==
    {r \in UNION {[1..n -> ResponseLines] : n \in 1..MaxLines} :
        /\ r[1] # <<>> /\ r[1][1] # SP
        /\ r[Len(r)] # <<>> /\ r[Len(r)][Len(r[Len(r)])] # SP}

InitFormat ==
    Start({MaxContext}, {0}, {TRUE},
          [p \in Projects |-> 0], [p \in Projects |-> 0], 0, StrippedResponses)

\* lines 452 and 458: the response is judged
JudgeFormat ==
    /\ verdict = "none"
    /\ verdict' = IF is_properly_formatted(subject) THEN "well-formed" ELSE "malformed"
    /\ UNCHANGED <<context_size, heartbeat_interval, is_running, subject>>
    /\ UNCHANGED <<shepherdVars, monitorVars, taskVars, fsVars, localVars>>
    /\ UNCHANGED <<output, final_status, history>>

SpecFormat == InitFormat /\ [][JudgeFormat]_vars

\* ---------------------------------------------------------------- the admission test alone
LongText(n) == [i \in 1..n |-> "w"]
\* empty, blank, short, padded to ten characters when trimmed, eleven characters
LineTexts == {<<>>, <<SP>>, <<"w">>, <<SP>> \o LongText(10) \o <<SP>>, LongText(11)}
ToolBlock == [type |-> "tool_use", text |-> <<>>, str |-> TRUE]
NumberBlock == [type |-> "text", text |-> <<>>, str |-> FALSE]
LineBlocks ==
    {<<>>, <<ToolBlock>>, <<TextBlock(<<"w">>)>>, <<TextBlock(<<SP>>)>>,
     <<TextBlock(<<"w">>), ToolBlock, TextBlock(<<"w">>)>>,
     <<TextBlock(<<"w">>), NumberBlock>>}
LineTypes == {"user", "assistant", "system", ""}
AdmissionLines ==
    {GarbageLine, ValueLine(TRUE), ValueLine(FALSE)}
    \cup {JsonLine(ty, k, <<TextBlock(t)>>, st) :
             ty \in LineTypes, k \in {"str", "top"}, t \in LineTexts, st \in BOOLEAN}
    \cup {JsonLine(ty, "list", b, st) : ty \in LineTypes, b \in LineBlocks, st \in BOOLEAN}
    \cup {JsonLine(ty, k, <<>>, st) :
             ty \in LineTypes, k \in {"other", "none", "top_other", "badmessage"},
             st \in BOOLEAN}

InitAdmission ==
    Start({MaxContext}, {0}, {TRUE},
          [p \in Projects |-> 0], [p \in Projects |-> 0], 0, AdmissionLines)

\* lines 855-860: the line is parsed and tested
JudgeLine ==
    /\ verdict = "none"
    /\ verdict' = IF ~parse_jsonl_message(subject) THEN "skipped"
                  ELSE IF raises(subject) THEN "raised"
                  ELSE IF admitted(subject) THEN "admitted"
                  ELSE "skipped"
    /\ UNCHANGED <<context_size, heartbeat_interval, is_running, subject>>
    /\ UNCHANGED <<shepherdVars, monitorVars, taskVars, fsVars, localVars>>
    /\ UNCHANGED <<output, final_status, history>>

SpecAdmission == InitAdmission /\ [][JudgeLine]_vars

\* ---------------------------------------------------------------- records of other shapes
\* the lines the environment may append to file f as its n-th line: a user
\* message, a system record with a stop marker, and valid JSON of other shapes
ShapeLines(f, n) ==
    { JsonLine("user", "str", <<TextBlock(<<Words[f][n]>>)>>, FALSE),
      JsonLine("system", "str", <<TextBlock(<<Words[f][n]>>)>>, TRUE),
      ValueLine(TRUE),
      ValueLine(FALSE),
      JsonLine("user", "badmessage", <<>>, FALSE),
      JsonLine("user", "other", <<>>, FALSE),
      JsonLine("user", "top_other", <<>>, FALSE),
      JsonLine("assistant", "list", <<NumberBlock>>, FALSE) }

\* one session of project A with up to MaxAppends lines of these shapes
InitShapes ==
    Start({MaxContext}, {1}, {TRUE},
          [p \in Projects |-> IF p = "A" THEN 1 ELSE 0],
          [p \in Projects |-> IF p = "A" THEN MaxAppends ELSE 0],
          0, {<<>>})

ShapesEnvironment ==
    \E p \in Projects : \E f \in LogNames :
        \/ CreateLog(p, f)
        \/ \E line \in ShapeLines(f, Len(logs[p][f].lines) + 1) : AppendLine(p, f, line)

NextShapes == ShapesEnvironment \/ Polling \/ LoopThread

SpecShapes == InitShapes /\ [][NextShapes]_vars

\* the polling loop keeps turning (time.sleep(0.1), line 902) and every oracle
\* call ends, at the latest by its time-out of 30 seconds (lines 340, 610)
SpecSessionLive == SpecSession /\ WF_vars(Polling) /\ WF_vars(LoopThread)

\* both projects are active: one session and one line each, a heartbeat for
\* every message
InitPair ==
    Start({MaxContext}, {1}, {TRUE},
          [p \in Projects |-> 1],
          [p \in Projects |-> 1],
          0, {<<>>})

NextPair == SessionEnvironment \/ Polling \/ LoopThread

SpecPair == InitPair /\ [][NextPair]_vars


\* ---------------------------------------------------------------- properties
Range(q) == {q[i] : i \in 1..Len(q)}
LastN(q, n) == SubSeq(q, Len(q) - n + 1, Len(q))
\* the analyses of project p that were started and not yet consumed
Outstanding(p) == {t \in futures : t.proj = p}

\* C1: for each project at most one analysis is outstanding at any instant: no
\* analysis is started while an earlier one of the project is not yet consumed.
C1_SingleFlight == \A p \in Projects : Cardinality(Outstanding(p)) <= 1

\* C1 witness: the last message of a batch reaches the dispatch test while the
\* project's earlier analysis is still in the slot.
C1_Witness ==
    /\ pc = "dispatch"
    /\ idx = Len(new_lines) - 1
    /\ pending_analyses[Me] # 0
    /\ Outstanding(Me) # {}

\* C2: for every context_size >= 0, after every add_to_context call the buffer
\* holds min(context_size, number of messages appended so far) entries.
C2_ContextLength ==
    \A p \in Projects :
        Len(conversation_context[p]) = Min(context_size, Len(history[p]))

\* C3: the context buffer equals the most recent min(context_size, n) appended
\* entries, in the order in which they were appended.
C3_ContextIsSuffix ==
    \A p \in Projects :
        conversation_context[p] = LastN(history[p], Min(context_size, Len(history[p])))

\* C4: message_count is the number of messages admitted into the context buffer:
\* each admission adds exactly 1 and no other step changes it.
C4_CountsAdmissions == \A p \in Projects : message_count[p] = Len(history[p])

\* C4 witness: a message was admitted and a line was skipped, an analysis was
\* started and something was printed for the project.
C4_Witness ==
    /\ message_count["A"] = 1
    /\ started["A"] = 1
    /\ output["A"] # <<>>
    /\ \E f \in LogNames :
        /\ project_log_path["A"] = f
        /\ GarbageLine \in Range(logs["A"][f].lines)
        /\ last_processed_line["A"] = 2

\* C5 (as claimed): at every tick every ledger record satisfies
\* message_num >= message_count - context_window + 1 (stated here at the start
\* of the project's tick and for a context_size of at least 1).
C5_LedgerInWindowAlways ==
    \A p \in Projects :
        (pc = "find" /\ Me = p /\ context_size >= 1) =>
            \A v \in Range(reported_violations[p]) :
                v.message_num >= message_count[p]
                    - Min(context_size, Len(conversation_context[p])) + 1

\* C5 (amended): from the build of a request until its analysis records its
\* result, every ledger record satisfies message_num >= N - context_window + 1
\* for the message_count N and the context window of that build; between
\* builds the ledger may hold older records.
C5_LedgerInWindowAfterBuild ==
    \A t \in futures :
        t.stage # "done" =>
            \A v \in Range(reported_violations[t.proj]) :
                v.message_num >= t.at - t.prompt.window + 1

\* C5 witness: a request was built while the ledger held a record, and the
\* record is still held.
C5_Witness ==
    \E t \in futures :
        /\ t.stage = "calling"
        /\ t.id = 2
        /\ reported_violations[t.proj] # <<>>


LineCount(p, f) == IF Exists(p, f) THEN Len(logs[p][f].lines) ELSE 0
\* the polling thread takes a step of switch_to_log for project p
SwitchStep(p) == Me = p /\ pc \in {"switch", "switch_read"} /\ pc' # pc

\* C6 (as claimed): whenever the scheduler switches a project to another log
\* file, last_processed_line is the new file's line count when the switch is
\* done (never left at the old file's offset).
C6_SwitchAnchorsAtEnd ==
    [][\A p \in Projects :
          (SwitchStep(p) /\ pc' = "exists") =>
              last_processed_line'[p] = LineCount(p, project_log_path'[p])]_vars

\* C7: a log switch leaves the project's context buffer, ledger, message_count,
\* alert_count and pending-task slot unchanged.
C7_SwitchPreservesState ==
    [][\A p \in Projects :
          (SwitchStep(p) \/ project_log_path'[p] # project_log_path[p]) =>
              /\ conversation_context'[p] = conversation_context[p]
              /\ reported_violations'[p] = reported_violations[p]
              /\ message_count'[p] = message_count[p]
              /\ alert_count'[p] = alert_count[p]
              /\ pending_analyses'[p] = pending_analyses[p]]_vars

\* C7 witness: the project is being switched to another file while its context
\* and ledger are not empty and an analysis is in its slot.
C7_Witness ==
    /\ pc = "switch_read"
    /\ conversation_context[Me] # <<>>
    /\ reported_violations[Me] # <<>>
    /\ pending_analyses[Me] # 0

\* the message counts at which a heartbeat was printed for project p
Beats(p) ==
    LET hb == SelectSeq(output[p], LAMBDA o : o.kind = "heartbeat")
    IN  [k \in 1..Len(hb) |-> hb[k].at]
\* the messages of p whose heartbeat test is done
BeatChecked(p) ==
    IF Me = p /\ pc \in {"heartbeat", "heartbeat_reset"}
    THEN message_count[p] - 1 ELSE message_count[p]

\* C8: a heartbeat is emitted after an append exactly when interval > 0 and
\* message_count > 0 and message_count mod interval = 0: the heartbeats printed
\* are those of the positive multiples of the interval, once each, and none is
\* printed when interval <= 0.
C8_HeartbeatAtMultiples ==
    \A p \in Projects :
        Beats(p) = IF heartbeat_interval <= 0 THEN <<>>
                   ELSE [k \in 1..(BeatChecked(p) \div heartbeat_interval) |->
                            k * heartbeat_interval]

\* C8 witness: with an interval of 2, two messages were admitted and the one
\* heartbeat is that of message 2.
C8_Witness ==
    /\ heartbeat_interval = 2
    /\ message_count["A"] = 2
    /\ Beats("A") = <<2>>

\* a heartbeat of project p is printed in this step
BeatStep(p) ==
    /\ Len(output'[p]) = Len(output[p]) + 1
    /\ output'[p][Len(output'[p])].kind = "heartbeat"

\* C9: firing a heartbeat resets the project's alert tally to zero and leaves
\* message_count, the context buffer, the ledger and the slot unchanged.
C9_HeartbeatResetsTally ==
    [][\A p \in Projects :
          BeatStep(p) =>
              /\ alert_count'[p] = 0
              /\ message_count'[p] = message_count[p]
              /\ conversation_context'[p] = conversation_context[p]
              /\ reported_violations'[p] = reported_violations[p]
              /\ pending_analyses'[p] = pending_analyses[p]]_vars

\* C9 witness: a heartbeat reported a tally of at least one alert, and the
\* tally is zero afterwards.
C9_Witness ==
    \E k \in 1..Len(output["A"]) :
        /\ output["A"][k].kind = "heartbeat"
        /\ output["A"][k].alerts > 0
        /\ alert_count["A"] = 0
        /\ pc = "dispatch"

\* the analyses of p that return their result in this step
Returning(p) ==
    {t \in futures' : t.proj = p /\ t.stage = "done" /\ t \notin futures}

\* the rule name that follows the alert marker on the first line
rule_on_first_line(response) ==
    LET first == response[1]
        k == CHOOSE i \in 1..Len(first) : first[i] = ALERT
    IN  Strip(SubSeq(first, k + 1, Len(first)))

expected_label(response) ==
    LET first == response[1]
    IN  IF Len(first) > 1 /\ first[1] = ALERT
        THEN <<rule_on_first_line(response)>>
        ELSE [k \in 1..Len(response) |-> remove_alert_prefix(response[k])]

Consumed(p) == {t \in futures : t.proj = p /\ t.stage = "done" /\ t \notin futures'}
\* the analyses of p that are started in this step
Dispatched(p) == {t \in futures' : t.proj = p /\ t.stage = "calling" /\ t \notin futures}

\* C11: when the oracle call times out or fails, the task resolves to the
\* failure sentinel, alert_count and the ledger are unchanged and the polling
\* loop goes on; when the scheduler consumes the task the slot is released and
\* nothing is sent again; a request started later is built from the context
\* and the last message of that moment.
C11_FailureContained ==
    [][\A p \in Projects :
          /\ \A t \in Returning(p) :
                t.response = AnalysisFailed =>
                    /\ alert_count'[p] = alert_count[p]
                    /\ reported_violations'[p] = reported_violations[p]
                    /\ pending_analyses'[p] = pending_analyses[p]
                    /\ pc' = pc
          /\ \A t \in Consumed(p) :
                t.response = AnalysisFailed =>
                    /\ pending_analyses'[p] = 0
                    /\ {u \in futures' : u.proj = p} = {}
                    /\ started'[p] = started[p]
                    /\ pc' = "find"
          /\ \A t \in Dispatched(p) :
                /\ t.prompt.summary = NegSlice(conversation_context[p], t.prompt.window)
                /\ t.prompt.message = history[p][Len(history[p])]
                /\ t.at = message_count[p]]_vars

\* C11 witness: the first analysis of the project failed and was consumed, the
\* tally and the ledger are untouched, and a second analysis is under way.
C11_Witness ==
    /\ \E k \in 1..Len(output["A"]) : output["A"][k].text = AnalysisFailed
    /\ \E t \in futures : t.proj = "A" /\ t.id = 2 /\ t.stage = "calling"
    /\ alert_count["A"] = 0
    /\ reported_violations["A"] = <<>>

\* the context entries of the admitted lines among lines, in order
AdmittedEntries(lines) ==
    LET ok == SelectSeq(lines, admitted)
    IN  [i \in 1..Len(ok) |-> FormatEntry(ok[i].type, extract_content(ok[i]))]

\* between two batches, the messages counted for p are the admitted lines of
\* its session file from the anchor up to last_processed_line
CountMatchesFile(p) ==
    (pc \in {"find", "switch", "switch_read", "exists", "open", "poll"}) =>
        LET lines == IF project_log_path[p] = None THEN <<>>
                     ELSE logs[p][project_log_path[p]].lines
            upto == Min(last_processed_line[p], Len(lines))
        IN  /\ message_count[p] = Len(history[p])
            /\ \E k \in 0..upto :
                   history[p] = AdmittedEntries(SubSeq(lines, k + 1, upto))

\* C12: a line that is not valid JSON is skipped silently: the step over it
\* changes neither message_count, the context buffer, the ledger nor the slot,
\* the next line of the batch is processed, the offset advances past it, and
\* the messages counted are exactly the admitted lines that were read.
C12_GarbageSkipped ==
    [][\A p \in Projects :
          /\ (/\ Me = p /\ pc = "line" /\ pc' # "interrupted"
              /\ ~parse_jsonl_message(new_lines[idx + 1])
              /\ <<pc, idx>>' # <<pc, idx>>) =>
                 /\ message_count'[p] = message_count[p]
                 /\ conversation_context'[p] = conversation_context[p]
                 /\ reported_violations'[p] = reported_violations[p]
                 /\ pending_analyses'[p] = pending_analyses[p]
                 /\ IF idx + 1 < Len(new_lines)
                    THEN pc' = "line" /\ idx' = idx + 1 /\ new_lines' = new_lines
                    ELSE pc' = "poll" /\ last_processed_line'[p] = total_lines
          /\ CountMatchesFile(p)']_vars

\* C12 witness: a batch holds a malformed line between two valid messages and
\* the second message has just been counted: message_count is 2.
C12_Witness ==
    /\ pc = "dispatch"
    /\ Len(new_lines) = 3
    /\ idx = 2
    /\ admitted(new_lines[1])
    /\ new_lines[2] = GarbageLine
    /\ message_count[Me] = 2
    /\ Len(history[Me]) = 2

\* C13 (as claimed): whenever the scheduler consumes a finished analysis whose
\* result contains the marker "ALERT:", it prints an alert block for the
\* project; for a result without the marker it prints no alert block.
C13_AlertBlockOnMarker ==
    [][\A p \in Projects : \A t \in Consumed(p) :
          /\ Len(output'[p]) = Len(output[p]) + 1
          /\ output'[p][Len(output'[p])].kind = "alert" <=> has_alert(t.response)]_vars

\* C14 (as claimed): an error confined to one project (its log file deleted
\* or unreadable, ...) never stops the scheduling of another project: the
\* polling loop is never ended by the error of one project while another
\* project is configured.
C14_ErrorsContained ==
    pc = "stopped" => \A q \in Projects : q = Me

\* C15 (as claimed): for one analysis a repair request is issued only when the
\* oracle's response contains the alert marker and is not well-formed, and
\* then exactly once.
C15_RepairExactlyOnce ==
    \A t \in futures :
        (t.stage = "done" /\ t.original # NoResponse) =>
            t.repairs = IF has_alert(t.original) /\ ~is_properly_formatted(t.original)
                        THEN 1 ELSE 0

\* C16 (as claimed): an alerting response is never dropped: when the oracle's
\* original response contains the alert marker, then whatever the repair
\* attempt returns, the analysis increments alert_count, records a ledger
\* entry and returns an alerting text.
C16_AlertNeverDropped ==
    [][\A p \in Projects : \A t \in Returning(p) :
          has_alert(t.original) =>
              /\ has_alert(t.response)
              /\ alert_count'[p] = alert_count[p] + 1
              /\ Len(reported_violations'[p]) = Len(reported_violations[p]) + 1]_vars

\* C17: within one tick of a project every admitted message of the batch is
\* appended to the context and counted; an analysis is started at most once,
\* only at the last line of the batch and only if the slot is empty, and a
\* message admitted while the slot is occupied starts none.
C17_DispatchOncePerBatch ==
    [][\A p \in Projects :
          /\ (Me = p /\ pc = "line" /\ pc' \in {"heartbeat", "dispatch"}) =>
                LET line == new_lines[idx + 1]
                    entry == FormatEntry(line.type, extract_content(line))
                IN  /\ admitted(line)
                    /\ history'[p] = Append(history[p], entry)
                    /\ message_count'[p] = message_count[p] + 1
                    /\ conversation_context'[p][Len(conversation_context'[p])] = entry
          /\ Dispatched(p) # {} =>
                /\ Me = p /\ pc = "dispatch"
                /\ idx = Len(new_lines) - 1
                /\ pending_analyses[p] = 0
                /\ Cardinality(Dispatched(p)) = 1
                /\ pc' = "poll"
          /\ (/\ Me = p /\ pc = "dispatch" /\ pc' \in {"line", "poll"}
              /\ (pending_analyses[p] # 0 \/ idx < Len(new_lines) - 1)) =>
                /\ futures' = futures
                /\ started'[p] = started[p]
                /\ pending_analyses'[p] = pending_analyses[p]]_vars

\* C17 witness: a batch of two admitted messages is read while the analysis of
\* an earlier message is in the slot; the second one is at the dispatch test.
C17_Witness ==
    /\ pc = "dispatch"
    /\ Len(new_lines) = 2
    /\ idx = 1
    /\ admitted(new_lines[1])
    /\ pending_analyses[Me] # 0
    /\ message_count[Me] = 3
    /\ Len(conversation_context[Me]) = 2

\* C18: the polling thread never waits on an oracle call: in every state,
\* whatever analyses are pending, the polling thread can take its next step,
\* and a project with an empty slot at the last line of its batch can start
\* its analysis whatever the other projects' analyses are doing.
C18_PollingNeverWaits ==
    /\ pc \notin {"stopped", "interrupted"} => ENABLED Polling
    /\ \A p \in Projects :
          (/\ Me = p /\ pc = "dispatch"
           /\ idx = Len(new_lines) - 1
           /\ pending_analyses[p] = 0) =>
              ENABLED (Dispatch /\ started'[p] = started[p] + 1
                                /\ pending_analyses'[p] # 0)

\* C18 witness: project A's analysis occupies the loop thread with its repair
\* call while the analysis of project B has been started.
C18_Witness ==
    /\ \E t \in futures : t.proj = "A" /\ t.stage = "reformat"
    /\ \E t \in futures : t.proj = "B" /\ t.stage = "calling"
    /\ pc = "poll"

\* the alerting results that the analyses of p have returned so far: those
\* the scheduler consumed and the one that waits in the slot
AlertsRaised(p) ==
    Cardinality({k \in 1..Len(output[p]) :
                    output[p][k].kind # "heartbeat" /\ has_alert(output[p][k].text)})
    + Cardinality({t \in futures : t.proj = p /\ t.stage = "done" /\ has_alert(t.response)})

\* C19 (as claimed): on an interrupt the final summary reports, over all
\* projects, the number of messages admitted during the run and the number of
\* alerting results raised during the run.
C19_FinalSummaryCounts ==
    pc = "interrupted" =>
        final_status = <<Total([p \in Projects |-> Len(history[p])], Len(ProjectOrder)),
                         Total([p \in Projects |-> AlertsRaised(p)], Len(ProjectOrder))>>

\* the batch of p is over, p has messages that no request covers, and they
\* were admitted while the analysis in its slot was pending
WaitsForAnalysis(p) ==
    /\ analysed[p] < message_count[p]
    /\ pending_analyses[p] # 0
    /\ ~(Me = p /\ pc \in {"line", "heartbeat", "heartbeat_reset", "dispatch"})

\* C20 (as claimed): messages admitted for a project while its analysis is
\* pending are eventually covered by a fresh request, even if no further
\* transcript line arrives (unless the user interrupts the run).
C20_PendingMessagesCovered ==
    \A p \in Projects :
        WaitsForAnalysis(p) ~> (analysed[p] = message_count[p] \/ pc = "interrupted")

\* the file that the polling thread is about to test or read for project p
FileInHand(p) == IF pc = "switch_read" THEN newest_log ELSE project_log_path[p]

\* C21 (as claimed): if the tailed log file is deleted between its discovery
\* and its read within a tick (also between the existence test and the open),
\* the tick treats this as no new lines: the project's state is unchanged and
\* the polling thread goes on to the poll of the project's task.
C21_DeletedLogIsNoNewLines ==
    [][\A p \in Projects :
          (/\ Me = p /\ pc \in {"exists", "open", "switch_read"} /\ pc' # pc
           /\ FileInHand(p) # None /\ ~Exists(p, FileInHand(p))) =>
              /\ pc' \in {"exists", "poll"}
              /\ conversation_context'[p] = conversation_context[p]
              /\ message_count'[p] = message_count[p]
              /\ alert_count'[p] = alert_count[p]
              /\ reported_violations'[p] = reported_violations[p]
              /\ pending_analyses'[p] = pending_analyses[p]
              /\ last_processed_line'[p] = last_processed_line[p]]_vars

\* the state of the analysis task of project p
TaskState(p) ==
    IF pending_analyses[p] = 0 THEN "Idle"
    ELSE LET t == CHOOSE t \in SlotFuture(p) : TRUE
         IN  IF t.stage # "done" THEN "Pending"
             ELSE IF t.response \in {AnalysisFailed, Raised} THEN "Failed"
             ELSE "Completed"

TaskMoves ==
    {<<"Idle", "Pending">>, <<"Pending", "Completed">>, <<"Pending", "Failed">>,
     <<"Completed", "Idle">>, <<"Failed", "Idle">>}

\* C22: the task of each project moves only along Idle -> Pending ->
\* {Completed | Failed} -> Idle; the scheduler consumes a finished task once,
\* clearing the slot also when reading the result raises; and while the
\* polling loop and the loop thread keep running, every task in the slot is
\* eventually consumed: no project stays pending until the end of the run.
C22_TaskLifecycle ==
    /\ [][\A p \in Projects :
             /\ TaskState(p)' # TaskState(p) => <<TaskState(p), TaskState(p)'>> \in TaskMoves
             /\ \A t \in Consumed(p) :
                   /\ pending_analyses'[p] = 0
                   /\ Len(output'[p]) = Len(output[p]) + 1
                   /\ \A u \in futures' : u.proj = p => u.id # t.id]_vars
    /\ \A p \in Projects :
          (pending_analyses[p] # 0) ~>
              (pending_analyses[p] = 0 \/ pc \in {"interrupted", "stopped"})

\* C22 witness: reading the result of a finished task raised, and the slot of
\* the project is empty again.
C22_Witness ==
    /\ \E k \in 1..Len(output["A"]) : output["A"][k].kind = "error"
    /\ pending_analyses["A"] = 0
    /\ started["A"] = 1

\* the loop thread takes a step of the analysis of project p
LoopStep(p) == \E t \in futures : t.proj = p /\ t.stage # "done" /\ t \notin futures'

\* C23 (as claimed): the slot of a project is written only by the polling
\* thread, and the loop thread writes nothing but the result of the task: it
\* writes neither the context buffer, the ledger nor the counters.
C23_LoopThreadWritesResultOnly ==
    [][\A p \in Projects :
          /\ pending_analyses'[p] # pending_analyses[p] =>
                (Me = p /\ pc \in {"dispatch", "poll"} /\ pc' # pc)
          /\ LoopStep(p) =>
                /\ conversation_context'[p] = conversation_context[p]
                /\ message_count'[p] = message_count[p]
                /\ alert_count'[p] = alert_count[p]
                /\ reported_violations'[p] = reported_violations[p]]_vars

\* C24 (as claimed): the oracle calls of different projects are not
\* serialized: while the analysis of one project is in progress, its repair
\* request included, the call of another project can complete or be cut off
\* by its own time-out.
C24_CallsNotSerialized ==
    \A t \in futures :
        (t.stage = "calling" /\ LoopRuns) =>
            /\ ENABLED OracleFails(t)
            /\ ENABLED OracleAnswers(t, RespClear)

\* C25: every request build first prunes the ledger: right after the build
\* the ledger holds exactly the earlier records with
\* message_num >= max(1, message_count - context_window + 1), in their order
\* (none outside the window is kept, none inside it is removed), and the
\* request's already-reported section lists exactly these records.
C25_BuildPrunesLedger ==
    [][\A p \in Projects : \A t \in Dispatched(p) :
          LET window == Min(context_size, Len(conversation_context[p]))
              first == Max(1, message_count[p] - window + 1)
              InWindow(v) == v.message_num >= first
          IN  /\ reported_violations'[p] = SelectSeq(reported_violations[p], InWindow)
              /\ t.prompt.reported = reported_violations'[p]
              /\ t.prompt.window = window]_vars

\* C25 witness: the second request of the project lists a violation that was
\* recorded earlier and is still inside the window.
C25_Witness ==
    \E t \in futures :
        /\ t.id = 2
        /\ t.stage = "calling"
        /\ t.prompt.reported # <<>>
        /\ t.prompt.reported = reported_violations[t.proj]
        /\ t.prompt.window = 2

\* well-formed in the words of the claim
WellFormed(r) ==
    LET marker == \E k \in 1..Len(r) : \E i \in 1..Len(r[k]) : r[k][i] = ALERT
    IN  \/ ~marker
        \/ /\ marker
           /\ Len(r[1]) > 0 /\ r[1][1] = ALERT
           /\ \E k \in 2..Len(r) : Len(r[k]) > 0 /\ r[k][1] = REASON

\* C26: a response is judged well-formed exactly when it contains no alert
\* marker, or it contains one and its first line begins with "ALERT:" and a
\* later line begins with "REASON:"; otherwise it is judged malformed.
C26_WellFormedExactly ==
    verdict # "none" => (verdict = "well-formed" <=> WellFormed(subject))

\* C26 witness: a response that begins with "ALERT:" but has no REASON line
\* was judged malformed.
C26_Witness ==
    /\ verdict = "malformed"
    /\ Len(subject) = 2
    /\ subject[1][1] = ALERT
    /\ subject[2] = <<"rule", REASON>>

\* C27: outside a log switch, last_processed_line of a project never
\* decreases, and at the end of a tick that read new lines it equals the
\* file's line count seen in that tick, which is larger than before.
C27_OffsetMonotonic ==
    [][\A p \in Projects :
          /\ ~SwitchStep(p) => last_processed_line'[p] >= last_processed_line[p]
          /\ (Me = p /\ pc \in {"line", "dispatch"} /\ pc' = "poll") =>
                /\ last_processed_line'[p] = total_lines
                /\ total_lines = last_processed_line[p] + Len(new_lines)
                /\ project_log_path'[p] = project_log_path[p]]_vars

\* C27 witness: two ticks of the project have each read one new line of the
\* same file and the offset is 2.
C27_Witness ==
    /\ pc = "poll"
    /\ started["A"] = 2
    /\ message_count["A"] = 2
    /\ last_processed_line["A"] = 2
    /\ project_log_path["A"] # None
    /\ Len(logs["A"][project_log_path["A"]].lines) = 2

\* the extracted text in the words of the specification: the content string,
\* or the text blocks joined by single blanks; empty for any other shape
TextOf(line) ==
    IF line.shape # "object" THEN <<>>
    ELSE IF line.kind \in {"str", "top"} THEN line.blocks[1].text
    ELSE IF line.kind = "list"
            /\ \A i \in 1..Len(line.blocks) : line.blocks[i].str
         THEN JoinText(line.blocks)
    ELSE <<>>

\* complete in the words of the claim
Complete(line) ==
    \/ line.type \in {"user", "assistant"} /\ TextOf(line) # <<>>
    \/ line.stop
    \/ Len(Strip(TextOf(line))) > 10

\* C29: a transcript line is admitted if and only if it parses as JSON, is
\* complete, and its extracted text is non-empty and not only whitespace
\* (complete: role user or assistant with non-empty text, or a stop marker, or
\* a trimmed text longer than 10 characters); a record with a stop marker but
\* empty or blank text is never admitted.
C29_AdmittedExactly ==
    verdict # "none" =>
        /\ verdict = "admitted" <=>
              /\ subject.shape # "garbage"
              /\ Complete(subject)
              /\ TextOf(subject) # <<>>
              /\ \E i \in 1..Len(TextOf(subject)) : TextOf(subject)[i] # SP
        /\ (subject.stop /\ \A i \in 1..Len(TextOf(subject)) : TextOf(subject)[i] = SP)
              => verdict # "admitted"

\* C29 witness: a record with a stop marker and a blank text was tested and
\* skipped.
C29_Witness ==
    /\ verdict = "skipped"
    /\ subject.shape = "object"
    /\ subject.kind = "str"
    /\ subject.stop
    /\ subject.blocks[1].text = <<SP>>

Roles == {"user", "assistant"}

\* C28 (as claimed): every entry ever placed in a context buffer and every
\* message ever dispatched for analysis has role user or assistant.
C28_RolesUserOrAssistant ==
    /\ \A p \in Projects : \A i \in 1..Len(history[p]) : history[p][i][1] \in Roles
    /\ \A p \in Projects : \A i \in 1..Len(conversation_context[p]) :
          conversation_context[p][i][1] \in Roles
    /\ \A t \in futures : t.prompt.message[1] \in Roles

\* valid JSON of an unrecognized shape, in the words of the claim: not an
\* object, a message payload that is not an object, a content that is neither
\* a string nor a list of blocks, a text block without string text
Unrecognized(line) ==
    \/ line.shape = "value"
    \/ /\ line.shape = "object"
       /\ \/ line.kind \in {"badmessage", "other", "top_other"}
          \/ /\ line.kind = "list"
             /\ \E i \in 1..Len(line.blocks) :
                    line.blocks[i].type = "text" /\ ~line.blocks[i].str

\* C30 (as claimed): a line that is valid JSON of an unrecognized shape is
\* skipped: it advances no counter, changes no buffer or ledger, and the
\* scheduler goes on with the next line and the next tick.
C30_UnrecognizedSkipped ==
    [][\A p \in Projects :
          (/\ Me = p /\ pc = "line"
           /\ Unrecognized(new_lines[idx + 1])
           /\ <<pc, idx>>' # <<pc, idx>>) =>
              /\ message_count'[p] = message_count[p]
              /\ conversation_context'[p] = conversation_context[p]
              /\ reported_violations'[p] = reported_violations[p]
              /\ alert_count'[p] = alert_count[p]
              /\ pc' \in {"line", "poll"}]_vars

\* this step ends the batch of project p
BatchEnds(p) == Me = p /\ pc \in {"line", "dispatch"} /\ pc' = "poll"

\* C31 (as claimed): in a tick in which project p is idle and its batch admits
\* at least one message, an analysis is started in that tick for the newest
\* admitted message of the batch, whatever skipped lines surround it.
C31_NewestAdmittedDispatched ==
    [][\A p \in Projects :
          (/\ BatchEnds(p)
           /\ pending_analyses[p] = 0
           /\ AdmittedEntries(new_lines) # <<>>) =>
              LET ok == AdmittedEntries(new_lines)
              IN  /\ pending_analyses'[p] # 0
                  /\ \E t \in Dispatched(p) : t.prompt.message = ok[Len(ok)]]_vars

\* C32 (as claimed): the ledger record created by an analysis carries as
\* message_num the sequence number of the message the analysis examined
\* (message_count at its dispatch), also when further messages were admitted
\* while it was pending.
C32_LedgerNumbersExaminedMessage ==
    [][\A t \in futures :
          (/\ t.stage # "done" /\ t \notin futures'
           /\ Len(reported_violations'[t.proj]) = Len(reported_violations[t.proj]) + 1) =>
              LET ledger == reported_violations'[t.proj]
              IN  ledger[Len(ledger)].message_num = t.at]_vars

\* the alert tallies that the first k heartbeats and results of out reported
RECURSIVE HeartbeatTallies(_, _)
HeartbeatTallies(out, k) ==
    IF k = 0 THEN 0
    ELSE HeartbeatTallies(out, k - 1)
         + (IF out[k].kind = "heartbeat" THEN out[k].alerts ELSE 0)

\* C33 (as claimed): alerts are accounted exactly once: outside a heartbeat,
\* the tallies reported by the heartbeats of project p plus its current
\* alert_count equal the number of alerting results produced for p.
C33_AlertsAccountedOnce ==
    \A p \in Projects :
        ~(Me = p /\ pc = "heartbeat_reset") =>
            HeartbeatTallies(output[p], Len(output[p])) + alert_count[p] = AlertsRaised(p)

\* the number of lines of the tailed file of p that were skipped at the anchor
\* or handed to parse_jsonl_message so far
Handed(p) ==
    last_processed_line[p]
    + (IF Me = p /\ pc = "line" THEN idx
       ELSE IF Me = p /\ pc \in {"heartbeat", "heartbeat_reset", "dispatch"} THEN idx + 1
       ELSE 0)

\* C34: while project p tails one append-only file and does not switch, the
\* lines appended after the anchor are handed to the extractor one by one in
\* file order: each step either hands exactly the next line of the file or
\* hands nothing, and a batch is exactly the lines not handed before.
C34_EachLineOnceInOrder ==
    [][\A p \in Projects :
          (/\ project_log_path[p] # None
           /\ project_log_path'[p] = project_log_path[p]
           /\ Exists(p, project_log_path[p])
           /\ pc \notin {"init", "switch_read"}
           /\ pc' \notin {"stopped", "interrupted"}) =>
              LET lines == logs[p][project_log_path[p]].lines
              IN  /\ Handed(p) <= Len(lines)
                  /\ \/ Handed(p)' = Handed(p)
                     \/ /\ Handed(p)' = Handed(p) + 1
                        /\ Me = p /\ pc = "line"
                        /\ new_lines[idx + 1] = lines[Handed(p) + 1]
                  /\ (Me = p /\ pc = "open" /\ pc' = "line") =>
                        /\ new_lines' = Slice(lines, last_processed_line[p])
                        /\ total_lines' = Len(lines)
                  /\ (Me = p /\ pc = "line" /\ <<pc, idx>>' # <<pc, idx>>) =>
                        Handed(p)' = Handed(p) + 1]_vars

\* C34 witness: the first line of the file was handed in an earlier tick; the
\* second is being handed now, and a third was appended after the file was read.
C34_Witness ==
    /\ pc = "line" /\ Me = "A"
    /\ last_processed_line["A"] = 1
    /\ message_count["A"] = 1
    /\ Len(new_lines) = 1
    /\ project_log_path["A"] # None
    /\ Len(logs["A"][project_log_path["A"]].lines) = 3

\* C35: the first log found for project p, at start-up or on a later tick
\* after none existed, is anchored at its current line count; the offset does
\* not go back while the file is tailed, nothing is extracted before a log is
\* found, and an extracted message is a line beyond the offset: the lines that
\* existed when monitoring began never enter the context.
C35_ExistingLinesNeverExtracted ==
    [][\A p \in Projects :
          /\ (Me = p /\ pc = "init" /\ cur' # cur /\ project_log_path'[p] # None) =>
                last_processed_line'[p] = Len(logs[p][project_log_path'[p]].lines)
          /\ (Me = p /\ pc = "switch_read" /\ pc' = "exists") =>
                last_processed_line'[p] = Len(logs[p][project_log_path[p]].lines)
          /\ (project_log_path'[p] = project_log_path[p] /\ pc \notin {"init", "switch_read"}) =>
                last_processed_line'[p] >= last_processed_line[p]
          /\ history'[p] # history[p] =>
                /\ Me = p /\ pc = "line"
                /\ project_log_path[p] # None
                /\ Exists(p, project_log_path[p]) =>
                      LET lines == logs[p][project_log_path[p]].lines
                          n == last_processed_line[p] + idx + 1
                      IN  /\ n > last_processed_line[p]
                          /\ n <= Len(lines)
                          /\ history'[p] = Append(history[p],
                                 FormatEntry(msg_type(lines[n]), extract_content(lines[n])))]_vars

\* C35 witness: the log of project A held one complete message when it was
\* found; that message was not extracted, the one appended after it was.
C35_Witness ==
    /\ project_log_path["A"] # None
    /\ last_processed_line["A"] = 2
    /\ LET lines == logs["A"][project_log_path["A"]].lines
       IN  /\ Len(lines) >= 2
           /\ admitted(lines[1])
           /\ history["A"] = <<FormatEntry(msg_type(lines[2]), extract_content(lines[2]))>>

\* C36 (as claimed): no line is lost by a rotation: when the scheduler
\* switches project p away from the file it tails, every line appended to
\* that file has been extracted.
C36_NoLineLostByRotation ==
    [][\A p \in Projects :
          (/\ Me = p /\ pc = "switch"
           /\ project_log_path[p] # None
           /\ project_log_path'[p] # project_log_path[p]
           /\ Exists(p, project_log_path[p])) =>
              last_processed_line[p] = Len(logs[p][project_log_path[p]].lines)]_vars

====
